---------------------------- MODULE Spec2Model ----------------------------
(***************************************************************************)
(* A model of src/utils.rs of TaleCast: remove_xml_namespaces (the         *)
(* namespace normalizer), replacer (the pattern renderer) and the index    *)
(* selection of search_podcasts.                                           *)
(*                                                                         *)
(* Texts are sequences of one-character strings.  An XML document is the   *)
(* sequence of its raw events, as quick_xml's Reader splits the text; its  *)
(* text is the concatenation of the events' serializations (XmlText).      *)
(***************************************************************************)
EXTENDS Integers, Sequences, FiniteSets, TLC

VARIABLES
    \* remove_xml_namespaces
    xml,          \* the input document: its raw events, in order
    replacement,  \* the replacement token
    rpos,         \* reader: index of the next raw event
    opened,       \* reader: names of the open elements (check_end_names)
    written,      \* the events handed to writer.write_event, in order
    buffer,       \* writer: the bytes written so far
    xpc,          \* "loop" | "done" | "panicked" | "idle"
    \* replacer
    val,          \* the record: field name -> value (or absent)
    input,        \* the template
    cpos,         \* index of the next character of input.chars()
    inside,
    output,
    pattern,
    fpc,          \* "scan" | "returned" | "panicked" | "idle"
    \* search_podcasts
    results,      \* the results kept, in order
    catch_up,
    printed,      \* the lines printed: [label, item]
    line,         \* the numbers entered, split at " " (-1: not a number)
    tpos,         \* index of the next token / of the next index
    indices,
    pushed,       \* the results handed to PodcastConfigs::push, in order
    regex_parts,
    caught_up,
    spc           \* "start" | "read" | "parse" | "add" | "done" | "idle"

xvars == <<xml, replacement, rpos, opened, written, buffer, xpc>>
fvars == <<val, input, cpos, inside, output, pattern, fpc>>
svars == <<results, catch_up, printed, line, tpos, indices, pushed,
           regex_parts, caught_up, spc>>
vars == <<xvars, fvars, svars>>

(***************************************************************************)
(* Bounds of the model.                                                    *)
(***************************************************************************)
MaxEvents == 4
MaxTemplateLen == 4
MaxResults == 3
MaxTokens == 2

(***************************************************************************)
(* Helpers on texts.                                                       *)
(***************************************************************************)
Last(s) == s[Len(s)]

Front(s) == SubSeq(s, 1, Len(s) - 1)

RECURSIVE Concat(_)
Concat(ss) == IF ss = <<>> THEN <<>> ELSE Head(ss) \o Concat(Tail(ss))

Has(s, c) == \E i \in 1..Len(s) : s[i] = c

(***************************************************************************)
(* remove_xml_namespaces.                                                  *)
(***************************************************************************)
Names == { <<"a">>, <<"p", ":", "b">>, <<"p", ":", "b", ":", "c">> }

NoAttrs == <<>>

Attrs == { NoAttrs, <<" ", "k", "=", "'", "v", "'">> }

Texts == { <<"t">>, <<" ", "t", " ">>, <<" ">> }

Tokens == { <<"_">>, <<"_", "_">> }

StartEv(n, a) == [type |-> "Start", name |-> n, rest |-> a]

EndEv(n) == [type |-> "End", name |-> n, rest |-> <<>>]

EmptyEv(n, a) == [type |-> "Empty", name |-> n, rest |-> a]

TextEv(t) == [type |-> "Text", name |-> <<>>, rest |-> t]

CommentEv(t) == [type |-> "Comment", name |-> <<>>, rest |-> t]

Leaves ==
    { EmptyEv(n, a) : n \in Names, a \in Attrs }
        \cup { TextEv(t) : t \in Texts }
        \cup { CommentEv(<<"c">>) }

\* The balanced event sequences of exactly k events.
RECURSIVE Forest(_)
Forest(k) ==
    IF k = 0 THEN { <<>> }
    ELSE { <<l>> \o r : l \in Leaves, r \in Forest(k - 1) }
         \cup UNION { UNION { { <<StartEv(n, a)>> \o body \o <<EndEv(n)>> \o r :
                                   body \in Forest(i), r \in Forest(k - 2 - i) } :
                              n \in Names, a \in Attrs } :
                      i \in 0..(k - 2) }

\* The reader joins adjacent character data into one Text event.
NoAdjacentText(d) ==
    \A i \in 1..(Len(d) - 1) : ~(d[i].type = "Text" /\ d[i + 1].type = "Text")

\* Documents with one root element.
WellFormedDocs ==
    { <<EmptyEv(n, a)>> : n \in Names, a \in Attrs }
        \cup UNION { { d \in { <<StartEv(n, a)>> \o body \o <<EndEv(n)>> :
                                  n \in Names, a \in Attrs, body \in Forest(k) } :
                         NoAdjacentText(d) } :
                     k \in 0..(MaxEvents - 2) }

\* The same documents with the root's end tag naming another element.
MismatchedDocs ==
    { [d EXCEPT ![Len(d)] = EndEv(n)] :
          d \in { w \in WellFormedDocs : Len(w) > 1 },
          n \in { <<"a">>, <<"p", ":", "b">> } }
        \ WellFormedDocs

Docs == WellFormedDocs \cup MismatchedDocs

IsSpace(c) == c = " "

RECURSIVE TrimStart(_)
TrimStart(t) ==
    IF t # <<>> /\ IsSpace(Head(t)) THEN TrimStart(Tail(t)) ELSE t

RECURSIVE TrimEnd(_)
TrimEnd(t) ==
    IF t # <<>> /\ IsSpace(Last(t)) THEN TrimEnd(Front(t)) ELSE t

\* reader.trim_text(true): both ends of every Text event are trimmed.
TrimText(t) == TrimEnd(TrimStart(t))

\* A Text event that is empty once trimmed is not reported.
RECURSIVE SkipBlank(_, _)
SkipBlank(d, i) ==
    IF i <= Len(d) /\ d[i].type = "Text" /\ TrimText(d[i].rest) = <<>>
    THEN SkipBlank(d, i + 1)
    ELSE i

\* What reader.read_event() returns at position i (after SkipBlank).
ReadEvent(d, i, open) ==
    IF i > Len(d) THEN [type |-> "Eof", name |-> <<>>, rest |-> <<>>]
    ELSE IF d[i].type = "Text" THEN TextEv(TrimText(d[i].rest))
    ELSE IF d[i].type = "End" /\ (open = <<>> \/ Last(open) # d[i].name)
         THEN [type |-> "Err", name |-> <<>>, rest |-> <<>>]
    ELSE d[i]

ColonPositions(name) == { i \in 1..Len(name) : name[i] = ":" }

modify_name_last(original_name, repl) ==
    IF ColonPositions(original_name) # {}
    THEN LET pos == CHOOSE i \in ColonPositions(original_name) :
                        \A j \in ColonPositions(original_name) : j <= i
         IN  SubSeq(original_name, 1, pos - 1) \o repl
                 \o SubSeq(original_name, pos + 1, Len(original_name))
    ELSE original_name

modify_name(original_name, repl) ==
    IF ColonPositions(original_name) # {}
    THEN LET pos == CHOOSE i \in ColonPositions(original_name) :
                        \A j \in ColonPositions(original_name) : i <= j
         IN  SubSeq(original_name, 1, pos - 1) \o repl
                 \o SubSeq(original_name, pos + 1, Len(original_name))
    ELSE original_name

\* Writer::write_event: the bytes of one event.
Serialize(e) ==
    CASE e.type = "Start" -> <<"<">> \o e.name \o e.rest \o <<">">>
      [] e.type = "End" -> <<"<", "/">> \o e.name \o <<">">>
      [] e.type = "Empty" -> <<"<">> \o e.name \o e.rest \o <<"/", ">">>
      [] e.type = "Text" -> e.rest
      [] e.type = "Comment" -> <<"<", "!", "-", "-">> \o e.rest \o <<"-", "-", ">">>

WriteEvent(e) ==
    /\ written' = Append(written, e)
    /\ buffer' = buffer \o Serialize(e)

CurPos == SkipBlank(xml, rpos)

CurEvent == ReadEvent(xml, CurPos, opened)

HandleStart ==
    /\ xpc = "loop"
    /\ CurEvent.type = "Start"
    /\ WriteEvent(StartEv(modify_name(CurEvent.name, replacement), NoAttrs))
    /\ opened' = Append(opened, CurEvent.name)
    /\ rpos' = CurPos + 1
    /\ UNCHANGED <<xml, replacement, xpc>>

HandleEnd ==
    /\ xpc = "loop"
    /\ CurEvent.type = "End"
    /\ WriteEvent(EndEv(modify_name(CurEvent.name, replacement)))
    /\ opened' = Front(opened)
    /\ rpos' = CurPos + 1
    /\ UNCHANGED <<xml, replacement, xpc>>

HandleEof ==
    /\ xpc = "loop"
    /\ CurEvent.type = "Eof"
    /\ xpc' = "done"
    /\ rpos' = CurPos
    /\ UNCHANGED <<xml, replacement, opened, written, buffer>>

HandleOther ==
    /\ xpc = "loop"
    /\ CurEvent.type \in {"Empty", "Text", "Comment"}
    /\ WriteEvent(CurEvent)
    /\ rpos' = CurPos + 1
    /\ UNCHANGED <<xml, replacement, opened, xpc>>

HandleErr ==
    /\ xpc = "loop"
    /\ CurEvent.type = "Err"
    /\ xpc' = "panicked"
    /\ rpos' = CurPos
    /\ UNCHANGED <<xml, replacement, opened, written, buffer>>

(***************************************************************************)
(* replacer.                                                               *)
(***************************************************************************)
Chars == { "{", "}", "a", "b", "\\" }

Templates == UNION { [1..n -> Chars] : n \in 0..MaxTemplateLen }

\* serde_json::Value, as far as its Display form goes: a string, a number,
\* a boolean, null, or an array of n fives.
StrV(s) == [t |-> "str", s |-> s, n |-> 0]

NumV(n) == [t |-> "num", s |-> <<>>, n |-> n]

BoolV(n) == [t |-> "bool", s |-> <<>>, n |-> n]

NullV == [t |-> "null", s |-> <<>>, n |-> 0]

ArrV(n) == [t |-> "arr", s |-> <<>>, n |-> n]

Absent == [t |-> "absent", s |-> <<>>, n |-> 0]

Values ==
    { StrV(<<>>), StrV(<<"H", "i">>), StrV(<<"a", "\\", "b">>), StrV(<<"\"">>),
      NumV(5), NumV(12), NumV(120), BoolV(1), NullV, ArrV(0), ArrV(2) }

FieldA == <<"a">>

FieldB == <<"b">>

Records ==
    { (FieldA :> x) @@ (FieldB :> y) :
          x \in Values \cup {Absent}, y \in {Absent, StrV(<<"x">>)} }

DigitChars == <<"0", "1", "2", "3", "4", "5", "6", "7", "8", "9">>

RECURSIVE Digits(_)
Digits(n) ==
    IF n < 10 THEN <<DigitChars[n + 1]>>
    ELSE Digits(n \div 10) \o <<DigitChars[(n % 10) + 1]>>

RECURSIVE Escape(_)
Escape(s) ==
    IF s = <<>> THEN <<>>
    ELSE (IF Head(s) \in {"\"", "\\"} THEN <<"\\", Head(s)>> ELSE <<Head(s)>>)
             \o Escape(Tail(s))

RECURSIVE Fives(_)
Fives(n) ==
    IF n = 0 THEN <<>>
    ELSE IF n = 1 THEN <<"5">>
    ELSE <<"5", ",">> \o Fives(n - 1)

\* Value::to_string(): the compact JSON text of the value.
to_string(v) ==
    CASE v.t = "str" -> <<"\"">> \o Escape(v.s) \o <<"\"">>
      [] v.t = "num" -> Digits(v.n)
      [] v.t = "bool" -> IF v.n = 1 THEN <<"t", "r", "u", "e">>
                         ELSE <<"f", "a", "l", "s", "e">>
      [] v.t = "null" -> <<"n", "u", "l", "l">>
      [] v.t = "arr" -> <<"[">> \o Fives(v.n) \o <<"]">>

\* val.get(&p)
Present(v, p) == p \in DOMAIN v /\ v[p].t # "absent"

Sentinel_single(p) == <<"<">> \o p \o <<">">>

\* format!("<<{}>>", p)
Sentinel(p) == <<"<", "<">> \o p \o <<">", ">">>

\* .replace("\\", "")
RECURSIVE RemoveBackslashes(_)
RemoveBackslashes(s) ==
    IF s = <<>> THEN <<>>
    ELSE (IF Head(s) = "\\" THEN <<>> ELSE <<Head(s)>>)
             \o RemoveBackslashes(Tail(s))

\* String::pop: removes the last character, if there is one.
Pop(s) == IF s = <<>> THEN s ELSE Front(s)

\* The text looked up for placeholder p, before pop() and remove(0).
Lookup(v, p) ==
    RemoveBackslashes(IF Present(v, p) THEN to_string(v[p]) ELSE Sentinel(p))

AtChar(c) == fpc = "scan" /\ cpos <= Len(input) /\ input[cpos] = c

Panic ==
    /\ fpc' = "panicked"
    /\ UNCHANGED <<val, input, cpos, inside, output>>

OpenBrace_lenient ==
    /\ AtChar("{")
    /\ inside' = TRUE
    /\ cpos' = cpos + 1
    /\ UNCHANGED <<val, input, output, pattern, fpc>>

OpenBrace ==
    /\ AtChar("{")
    /\ IF inside
       THEN Panic /\ UNCHANGED pattern
       ELSE /\ inside' = TRUE
            /\ cpos' = cpos + 1
            /\ UNCHANGED <<val, input, output, pattern, fpc>>

\* String::remove(0) panics on an empty string.
CloseBrace ==
    /\ AtChar("}")
    /\ IF ~inside
       THEN Panic /\ UNCHANGED pattern
       ELSE LET popped == Pop(Lookup(val, pattern))
            IN  /\ pattern' = <<>>
                /\ IF popped = <<>>
                   THEN Panic
                   ELSE /\ output' = output \o Tail(popped)
                        /\ inside' = FALSE
                        /\ cpos' = cpos + 1
                        /\ UNCHANGED <<val, input, fpc>>

PlainChar ==
    /\ fpc = "scan"
    /\ cpos <= Len(input)
    /\ input[cpos] \notin {"{", "}"}
    /\ IF inside
       THEN pattern' = Append(pattern, input[cpos]) /\ UNCHANGED output
       ELSE output' = Append(output, input[cpos]) /\ UNCHANGED pattern
    /\ cpos' = cpos + 1
    /\ UNCHANGED <<val, input, inside, fpc>>

Return_strict ==
    /\ fpc = "scan"
    /\ cpos > Len(input)
    /\ fpc' = IF inside THEN "panicked" ELSE "returned"
    /\ UNCHANGED <<val, input, cpos, inside, output, pattern>>

\* The loop over input.chars() is over: output is returned.
Return ==
    /\ fpc = "scan"
    /\ cpos > Len(input)
    /\ fpc' = "returned"
    /\ UNCHANGED <<val, input, cpos, inside, output, pattern>>

(***************************************************************************)
(* search_podcasts.  The i-th entry of the search response is the number   *)
(* i; a token of the line read is a number, or NotANumber.                 *)
(***************************************************************************)
NotANumber == -1

Responses == { [i \in 1..n |-> i] : n \in 0..MaxResults }

TokenSeqs ==
    UNION { [1..n -> (0..(MaxResults + 1)) \cup {NotANumber}] : n \in 0..MaxTokens }

\* The loop that fills results: it stops once idx == max_search_results.
Collected(response, max) ==
    IF max = 0 \/ max >= Len(response) THEN response
    ELSE SubSeq(response, 1, max)

CollectResults ==
    /\ spc = "start"
    /\ \E response \in Responses, max \in 0..MaxResults :
           /\ results' = Collected(response, max)
           /\ spc' = IF Collected(response, max) = <<>> THEN "done" ELSE "print"
    /\ UNCHANGED <<catch_up, printed, line, tpos, indices, pushed,
                   regex_parts, caught_up>>

\* for (idx, res) in results.iter().enumerate(): idx counts from 0.
PrintResults ==
    /\ spc = "print"
    /\ printed' = [i \in 1..Len(results) |-> [label |-> i - 1, item |-> results[i]]]
    /\ spc' = "read"
    /\ UNCHANGED <<results, catch_up, line, tpos, indices, pushed,
                   regex_parts, caught_up>>

ReadLine ==
    /\ spc = "read"
    /\ \E toks \in TokenSeqs :
           /\ line' = toks
           /\ spc' = IF toks = <<>> THEN "done" ELSE "parse"
    /\ UNCHANGED <<results, catch_up, printed, tpos, indices, pushed,
                   regex_parts, caught_up>>

ParseToken ==
    /\ spc = "parse"
    /\ LET num == line[tpos]
       IN  IF num = NotANumber \/ num > Len(results) \/ num = 0
           THEN /\ spc' = "done"
                /\ UNCHANGED <<tpos, indices>>
           ELSE /\ indices' = Append(indices, num - 1)
                /\ IF tpos = Len(line)
                   THEN spc' = "add" /\ tpos' = 1
                   ELSE spc' = "parse" /\ tpos' = tpos + 1
    /\ UNCHANGED <<results, catch_up, printed, line, pushed, regex_parts,
                   caught_up>>

\* results[index] is 0-based in the code: the model's results[index + 1].
AddPodcast ==
    /\ spc = "add"
    /\ tpos <= Len(indices)
    /\ LET item == results[indices[tpos] + 1]
       IN  /\ pushed' = Append(pushed, item)
           /\ \E fresh \in BOOLEAN :
                  regex_parts' = IF fresh /\ catch_up
                                 THEN Append(regex_parts, item)
                                 ELSE regex_parts
    /\ tpos' = tpos + 1
    /\ UNCHANGED <<results, catch_up, printed, line, indices, caught_up, spc>>

Finish ==
    /\ spc = "add"
    /\ tpos > Len(indices)
    /\ caught_up' = (catch_up /\ regex_parts # <<>>)
    /\ spc' = "done"
    /\ UNCHANGED <<results, catch_up, printed, line, tpos, indices, pushed,
                   regex_parts>>

XmlIdle ==
    /\ xml = <<>> /\ replacement = <<>> /\ rpos = 1 /\ opened = <<>>
    /\ written = <<>> /\ buffer = <<>> /\ xpc = "idle"

FmtIdle ==
    /\ val = <<>> /\ input = <<>> /\ cpos = 1 /\ inside = FALSE
    /\ output = <<>> /\ pattern = <<>> /\ fpc = "idle"

SearchIdle ==
    /\ results = <<>> /\ catch_up = FALSE /\ printed = <<>> /\ line = <<>>
    /\ tpos = 1 /\ indices = <<>> /\ pushed = <<>> /\ regex_parts = <<>>
    /\ caught_up = FALSE /\ spc = "idle"

XmlInit ==
    /\ xml \in Docs
    /\ replacement \in Tokens
    /\ rpos = 1
    /\ opened = <<>>
    /\ written = <<>>
    /\ buffer = <<>>
    /\ xpc = "loop"
    /\ FmtIdle
    /\ SearchIdle

XmlNext ==
    \/ HandleStart /\ UNCHANGED <<fvars, svars>>
    \/ HandleEnd /\ UNCHANGED <<fvars, svars>>
    \/ HandleEof /\ UNCHANGED <<fvars, svars>>
    \/ HandleOther /\ UNCHANGED <<fvars, svars>>
    \/ HandleErr /\ UNCHANGED <<fvars, svars>>

XmlSpec == XmlInit /\ [][XmlNext]_vars

FmtInit ==
    /\ val \in Records
    /\ input \in Templates
    /\ cpos = 1
    /\ inside = FALSE
    /\ output = <<>>
    /\ pattern = <<>>
    /\ fpc = "scan"
    /\ XmlIdle
    /\ SearchIdle

FmtNext ==
    \/ OpenBrace /\ UNCHANGED <<xvars, svars>>
    \/ CloseBrace /\ UNCHANGED <<xvars, svars>>
    \/ PlainChar /\ UNCHANGED <<xvars, svars>>
    \/ Return /\ UNCHANGED <<xvars, svars>>

FmtSpec == FmtInit /\ [][FmtNext]_vars

SearchInit ==
    /\ results = <<>>
    /\ catch_up \in BOOLEAN
    /\ printed = <<>>
    /\ line = <<>>
    /\ tpos = 1
    /\ indices = <<>>
    /\ pushed = <<>>
    /\ regex_parts = <<>>
    /\ caught_up = FALSE
    /\ spc = "start"
    /\ XmlIdle
    /\ FmtIdle

SearchNext ==
    \/ CollectResults /\ UNCHANGED <<xvars, fvars>>
    \/ PrintResults /\ UNCHANGED <<xvars, fvars>>
    \/ ReadLine /\ UNCHANGED <<xvars, fvars>>
    \/ ParseToken /\ UNCHANGED <<xvars, fvars>>
    \/ AddPodcast /\ UNCHANGED <<xvars, fvars>>
    \/ Finish /\ UNCHANGED <<xvars, fvars>>

SearchSpec == SearchInit /\ [][SearchNext]_vars

(***************************************************************************)
(* Properties of remove_xml_namespaces (under XmlSpec).                    *)
(***************************************************************************)
IsElement(e) == e.type \in {"Start", "End", "Empty"}

\* o is n with its first ":" replaced by tok; o is n when n has no ":".
NameRewritten(n, o, tok) ==
    IF ~Has(n, ":") THEN o = n
    ELSE \E i \in 1..Len(n) :
             /\ n[i] = ":"
             /\ \A j \in 1..(i - 1) : n[j] # ":"
             /\ Len(o) = Len(n) - 1 + Len(tok)
             /\ \A j \in 1..(i - 1) : o[j] = n[j]
             /\ \A j \in 1..Len(tok) : o[i - 1 + j] = tok[j]
             /\ \A j \in (i + 1)..Len(n) : o[j - 1 + Len(tok)] = n[j]

\* Every End event of evs closes the latest open Start event of the same name.
RECURSIVE Paired(_, _)
Paired(evs, open) ==
    IF evs = <<>> THEN open = <<>>
    ELSE IF Head(evs).type = "Start"
         THEN Paired(Tail(evs), Append(open, Head(evs).name))
    ELSE IF Head(evs).type = "End"
         THEN /\ open # <<>>
              /\ Last(open) = Head(evs).name
              /\ Paired(Tail(evs), Front(open))
    ELSE Paired(Tail(evs), open)

XmlText(d) == Concat([i \in 1..Len(d) |-> Serialize(d[i])])

\* C1: every Start and every End event is written with its name rewritten at
\* the first ":" only (unchanged without ":"), and once a well-formed document
\* is done the start and end tags written still pair up with equal names.
C1_NamesRewritten ==
    /\ [][(xpc = "loop" /\ CurEvent.type \in {"Start", "End"})
             => /\ Len(written') = Len(written) + 1
                /\ Last(written').type = CurEvent.type
                /\ NameRewritten(CurEvent.name, Last(written').name, replacement)]_vars
    /\ []((xpc = "done" /\ xml \in WellFormedDocs) => Paired(written, <<>>))

C1_Witness ==
    /\ xpc = "done"
    /\ xml = <<StartEv(<<"a">>, NoAttrs),
               StartEv(<<"p", ":", "b", ":", "c">>, NoAttrs),
               EndEv(<<"p", ":", "b", ":", "c">>), EndEv(<<"a">>)>>
    /\ replacement = <<"_", "_">>
    /\ written[2].name = <<"p", "_", "_", "b", ":", "c">>
    /\ written[3].name = <<"p", "_", "_", "b", ":", "c">>

\* C2: once a well-formed document is done, the events written are the events
\* read, one for one, with every text node and every element's attributes as
\* they were in the input.
C2_ContentPreserved ==
    (xpc = "done" /\ xml \in WellFormedDocs)
        => /\ Len(written) = Len(xml)
           /\ \A i \in 1..Len(xml) :
                  /\ written[i].type = xml[i].type
                  /\ written[i].rest = xml[i].rest

\* C3: a well-formed document none of whose element names has a ":" is
\* returned as it was given.
C3_IdentityOnColonFree ==
    (/\ xpc = "done"
     /\ xml \in WellFormedDocs
     /\ \A i \in 1..Len(xml) : ~Has(xml[i].name, ":"))
        => buffer = XmlText(xml)

\* C4: no element written, at a start, an end or a self-closing position,
\* still carries a name of the input that has a ":".
C4_NoColonNameLeft ==
    (xpc = "done" /\ xml \in WellFormedDocs)
        => \A i \in 1..Len(written) :
               IsElement(written[i])
                   => ~\E j \in 1..Len(xml) :
                          /\ Has(xml[j].name, ":")
                          /\ written[i].name = xml[j].name

(***************************************************************************)
(* Properties of replacer (under FmtSpec).                                 *)
(***************************************************************************)
\* A placeholder is open before position i of template t.
OpenBefore(t, i) ==
    \E j \in 1..(i - 1) :
        /\ t[j] = "{"
        /\ \A k \in (j + 1)..(i - 1) : t[k] # "}"

NestedOpen(t) == \E i \in 1..Len(t) : t[i] = "{" /\ OpenBefore(t, i)

StrayClose(t) == \E i \in 1..Len(t) : t[i] = "}" /\ ~OpenBefore(t, i)

Unclosed(t) == OpenBefore(t, Len(t) + 1)

NoBackslash(s) == SelectSeq(s, LAMBDA c : c # "\\")

ClosingAbsent == AtChar("}") /\ inside /\ ~Present(val, pattern)

ClosingPresent == AtChar("}") /\ inside /\ Present(val, pattern)

C6_MalformedOrUnclosedFails ==
    fpc = "returned"
        => ~(NestedOpen(input) \/ StrayClose(input) \/ Unclosed(input))

\* C6 as amended: a template with a "{" inside an open placeholder or a "}"
\* outside a placeholder never returns a string; the scan that meets such a
\* brace aborts there.
C6_MalformedFails ==
    /\ [](fpc = "returned" => ~(NestedOpen(input) \/ StrayClose(input)))
    /\ [][((AtChar("{") /\ inside) \/ (AtChar("}") /\ ~inside))
             => fpc' = "panicked"]_vars

C6_Witness ==
    /\ fpc = "panicked"
    /\ input[cpos] = "{"
    /\ inside
    /\ output # <<>>

\* C7: a placeholder whose field is present is replaced by the value's string
\* form without its backslashes, its first and its last character, and the
\* placeholder buffer is emptied.
C7_PresentSubstituted ==
    [][ClosingPresent
          => LET text == NoBackslash(to_string(val[pattern]))
             IN  /\ output' = output \o SubSeq(text, 2, Len(text) - 1)
                 /\ pattern' = <<>>
                 /\ inside' = FALSE
                 /\ fpc' = "scan"]_vars

\* C8: while a placeholder is open nothing is added to the output, and when
\* the template ends with the placeholder still open the output is returned
\* as it stands.
C8_UnterminatedDropped ==
    /\ [][(fpc = "scan" /\ inside)
             => /\ inside' => output' = output
                /\ cpos > Len(input) => (fpc' = "returned" /\ output' = output)]_vars
    /\ []((inside /\ cpos > Len(input)) => fpc \in {"scan", "returned"})

C8_Witness ==
    /\ fpc = "returned"
    /\ inside
    /\ input = <<"a", "{", "b", "a">>
    /\ pattern = <<"b", "a">>
    /\ output = <<"a">>

\* C9: a template whose braces are balanced and not nested never aborts,
\* whatever the record holds.
C9_WellBracedReturns ==
    ~(NestedOpen(input) \/ StrayClose(input) \/ Unclosed(input))
        => fpc # "panicked"

(***************************************************************************)
(* Properties of search_podcasts (under SearchSpec).                       *)
(***************************************************************************)
\* C10: every result handed to PodcastConfigs::push is the one printed with
\* the number entered for it, and a line whose numbers are all printed labels
\* is not rejected.
C10_LabelSelects ==
    /\ \A k \in 1..Len(pushed) :
           \E j \in 1..Len(printed) :
               printed[j].label = line[k] /\ printed[j].item = pushed[k]
    /\ (/\ spc = "done"
        /\ line # <<>>
        /\ \A k \in 1..Len(line) :
               \E j \in 1..Len(printed) : printed[j].label = line[k])
           => Len(pushed) = Len(line)

=============================================================================
